---- MODULE Spec2Model ----
(***************************************************************************)
(* Model of SavedInTime (sit): the consistent-snapshot capture engine of   *)
(* src/src/processor.rs and the archive writer of src/src/archiver.rs.     *)
(*                                                                         *)
(* The capture engine is a single sequential process whose every file      *)
(* system call is one atomic step; external writers (modify, create,       *)
(* delete, chmod) interleave freely between the steps, and so does the     *)
(* wall clock, which advances with the writers' steps and between passes.  *)
(* The three type tests of one listed entry (is_dir, is_file, is_symlink)  *)
(* are taken as one step.                                                  *)
(*                                                                         *)
(* The captured tree is  r/ { a, d/ { b }, l }  where r is the capture     *)
(* root, a and b are regular files, d is a directory and l is a symbolic   *)
(* link whose target is r/a ("in"), a path that does not exist             *)
(* ("missing") or a regular file outside r ("out").                        *)
(*                                                                         *)
(* Environment faults that are left out: temp-file creation and the zstd   *)
(* encoder never fail, read_dir never yields a broken entry, and the file  *)
(* system always reports modification times.                               *)
(***************************************************************************)
EXTENDS Integers, Sequences, FiniteSets, TLC

\* ---- bounds ----
MaxTime == 3
MaxWrites == 1
MaxIter == 1
MaxEntries == 3

VARIABLES
  fs,              \* the file system: present paths, mtimes, contents, modes
  ltarget,         \* where the symlink r/l points: "in", "missing", "out"
  clock,           \* the wall clock (SystemTime::now())
  writes,          \* number of writer steps taken so far
  max_iterations,  \* argument of process_directory
  pc,              \* position of the capture process
  iterations,      \* process_directory: iterations
  last_time,       \* process_directory: last_time
  signal,          \* the bool of the Err(..) returned by the failed pass
  result,          \* outcome of process_directory
  compiled,        \* compiled_entries
  vis,             \* Visitor nodes, by directory path
  ent,             \* WeakEntry records, by path (all entries maps together)
  lnk,             \* SymlinkEntry record of r/l (the links map)
  stack,           \* directories whose visit/fvisit is in progress
  todo,            \* per directory: listing entries not yet processed
  cur,             \* path the current record operation works on
  pend,            \* WeakEntry under construction in WeakEntry::new
  fsAtR,           \* history: the states of the tree as of last_time
  passes,          \* history: number of passes started
  listed,          \* history: paths the current pass met in a listing
  listing,         \* history: paths read_dir returned in the current pass
  failOp,          \* history: system call whose failure ended the pass
  failPath,        \* history: path that system call was made on
  failGone,        \* history: the path did not exist when the Err was built
  lastVisit,       \* history: the last WeakEntry::visit, before and after
  entries,         \* create_tarball: the entries argument
  readLink,        \* what read_link yields for r/l while the archive is written
  nextEntry,       \* create_tarball: position of the loop over entries
  tar,             \* create_tarball: the records appended to the builder
  archResult       \* outcome of create_tarball

vars == <<fs, ltarget, clock, writes, max_iterations, pc, iterations,
          last_time, signal, result, compiled, vis, ent, lnk, stack, todo,
          cur, pend, fsAtR, passes, listed, listing, failOp, failPath,
          failGone, lastVisit, entries, readLink, nextEntry, tar, archResult>>

archVars == <<entries, readLink, nextEntry, tar, archResult>>

engineVars == <<max_iterations, pc, iterations, last_time, signal, result,
                compiled, vis, ent, lnk, stack, todo, cur, pend, passes, listed,
                listing, failOp, failPath, failGone, lastVisit>>

\* ---- the tree ----
Paths == {"r", "a", "d", "b", "l"}
Dirs == {"r", "d"}
Files == {"a", "b"}
RecPaths == {"a", "b", "l"}

Parent(p) == IF p = "b" THEN "d" ELSE IF p = "r" THEN "none" ELSE "r"

Children(f, dir) == {p \in f.present : Parent(p) = dir}

\* ---- std::fs / std::path as the engine uses them ----

\* The object a path names once symbolic links are followed.
Resolve(f, p) ==
  IF p \notin f.present THEN "none"
  ELSE IF p # "l" THEN p
  ELSE IF ltarget = "out" THEN "out"
  ELSE IF ltarget = "in" /\ "a" \in f.present THEN "a"
  ELSE "none"

\* Path::metadata() succeeds
MetadataOk(f, p) == Resolve(f, p) # "none"

\* Metadata::modified() of a successful Path::metadata()
Modified(f, p) == IF Resolve(f, p) = "out" THEN 0 ELSE f.mtime[Resolve(f, p)]

\* Path::exists(): fs::metadata(path).is_ok()
Exists(f, p) == MetadataOk(f, p)

IsDir(f, p) == Resolve(f, p) \in Dirs
IsFile(f, p) == Resolve(f, p) \in Files \cup {"out"}
\* Path::is_symlink(): symlink_metadata, the link itself
IsSymlink(f, p) == p = "l" /\ p \in f.present

\* std::fs::read succeeds
ReadOk(f, p) ==
  \/ Resolve(f, p) = "out"
  \/ Resolve(f, p) \in Files /\ f.readable[Resolve(f, p)]

FileData(f, p) == IF Resolve(f, p) = "out" THEN 0 ELSE f.data[Resolve(f, p)]

\* tempfile(): a fresh, empty file
TempFile == <<>>

\* zstd::Encoder write_all + finish: the compressed frame of the bytes
Compress(c) == <<"zstd", c>>

\* ---- records ----
NoEntry == [cached |-> FALSE, metadata |-> 0, visit_revision |-> 0,
            encoded_data |-> TempFile]
NoLink == [cached |-> FALSE, metadata |-> 0, visit_revision |-> 0]
NoVisitor == [cached |-> FALSE, metadata |-> 0, revision |-> 0]
NoVisit == [path |-> "none", before |-> NoEntry, after |-> NoEntry,
            target |-> 0, modified |-> 0, data |-> 0, outcome |-> "none"]

\* impl From<WeakEntry> / From<SymlinkEntry> / From<&Visitor> for Entry
FileEntry(p) == [path |-> p, metadata |-> ent[p].metadata,
                 entry_type |-> "File", data |-> ent[p].encoded_data]
LinkEntry == [path |-> "l", metadata |-> lnk.metadata,
              entry_type |-> "Symlink", data |-> TempFile]
DirEntry(p) == [path |-> p, metadata |-> vis[p].metadata,
                entry_type |-> "Directory", data |-> TempFile]

\* Visitor::compile, the pushed entries as a set (the Vec's order follows
\* HashMap iteration and carries no information)
CompileUnfiltered(n, time_to_match) ==
  {DirEntry(n)}
  \cup {FileEntry(p) : p \in {q \in RecPaths : Parent(q) = n /\ ent[q].cached}}

CompileAllCached(n, time_to_match) ==
  {DirEntry(q) : q \in {m \in Dirs : /\ m = n \/ Parent(m) = n
                                    /\ vis[m].cached}}
  \cup {FileEntry(p) : p \in {q \in RecPaths : ent[q].cached}}
  \cup (IF lnk.cached THEN {LinkEntry} ELSE {})

RECURSIVE CompileNode(_, _)
CompileNode(n, time_to_match) ==
  IF vis[n].revision # time_to_match THEN {}
  ELSE {DirEntry(n)}
       \cup {FileEntry(p) : p \in {q \in RecPaths :
               /\ Parent(q) = n
               /\ ent[q].cached
               /\ ent[q].visit_revision = time_to_match}}
       \cup UNION {CompileNode(m, time_to_match) :
               m \in {q \in Dirs : Parent(q) = n /\ vis[q].cached}}
       \cup (IF n = "r" /\ lnk.cached /\ lnk.visit_revision = time_to_match
             THEN {LinkEntry} ELSE {})

\* ---- initial states ----
InitFs ==
  \E pres \in SUBSET Paths :
    /\ \A p \in pres : Parent(p) \in pres \cup {"none"}
    /\ fs = [present |-> pres,
             mtime |-> [p \in Paths |-> 0],
             data |-> [p \in Files |-> IF p \in pres THEN 1 ELSE 0],
             readable |-> [p \in Files |-> TRUE]]
    /\ ltarget \in (IF "l" \in pres THEN {"in", "missing", "out"}
                    ELSE {"missing"})

InitEngine ==
  /\ clock = 1
  /\ writes = 0
  /\ pc = "init"
  /\ iterations = 0
  /\ last_time = 0
  /\ signal = FALSE
  /\ result = "none"
  /\ compiled = {}
  /\ vis = [p \in Dirs |-> NoVisitor]
  /\ ent = [p \in RecPaths |-> NoEntry]
  /\ lnk = NoLink
  /\ stack = <<>>
  /\ todo = [p \in Dirs |-> {}]
  /\ cur = "none"
  /\ pend = NoEntry
  /\ fsAtR = {fs}
  /\ passes = 0
  /\ listed = {}
  /\ listing = {}
  /\ failOp = "none"
  /\ failPath = "none"
  /\ failGone = FALSE
  /\ lastVisit = NoVisit

InitArchIdle ==
  /\ entries = <<>>
  /\ readLink = <<>>
  /\ nextEntry = 1
  /\ tar = <<>>
  /\ archResult = "none"

Init ==
  /\ InitFs
  /\ max_iterations \in 0..MaxIter
  /\ InitEngine
  /\ InitArchIdle

\* ---- the environment: clock and external writers ----
Running == pc \notin {"init", "done"}

\* history: every state the tree is in while the clock reads last_time,
\* from the instant last_time was read, is a state of the tree as of last_time
AsOf(t, f) == IF t = last_time THEN fsAtR \cup {f} ELSE fsAtR

\* One step of an external writer at time t, leaving the tree as f(t). Time
\* passes only here and at the driver's own clock reads: a tick of the clock
\* commutes with every step that does not read it, so each writer step
\* either happens within the current tick or is the first of the next one.
WriterStep(t, f) ==
  /\ Running
  /\ writes < MaxWrites
  /\ t \in {clock, clock + 1}
  /\ t <= MaxTime
  /\ clock' = t
  /\ fs' = f
  /\ writes' = writes + 1
  /\ fsAtR' = AsOf(t, f)
  /\ UNCHANGED ltarget
  /\ UNCHANGED engineVars
  /\ UNCHANGED archVars

\* a writer overwrites an existing regular file
ModifyFile(p) ==
  /\ p \in fs.present
  /\ \E t \in {clock, clock + 1} :
       WriterStep(t, [fs EXCEPT !.data[p] = writes + 2, !.mtime[p] = t])

\* a writer creates a regular file; the parent directory's mtime changes
CreateFile(p) ==
  /\ p \notin fs.present
  /\ Parent(p) \in fs.present
  /\ \E t \in {clock, clock + 1} :
       WriterStep(t, [fs EXCEPT !.present = @ \cup {p},
                                !.data[p] = writes + 2,
                                !.mtime[p] = t,
                                !.mtime[Parent(p)] = t])

\* a writer unlinks a regular file; the parent directory's mtime changes
DeleteFile(p) ==
  /\ p \in fs.present
  /\ \E t \in {clock, clock + 1} :
       WriterStep(t, [fs EXCEPT !.present = @ \ {p},
                                !.data[p] = 0,
                                !.mtime[p] = 0,
                                !.readable[p] = TRUE,
                                !.mtime[Parent(p)] = t])

\* a writer changes the mode of a regular file (chmod 000 / chmod 644);
\* the modification time is not affected
Chmod(p) ==
  /\ p \in fs.present
  /\ \E t \in {clock, clock + 1} :
       WriterStep(t, [fs EXCEPT !.readable[p] = ~@])

\* a writer renames a new file, one the capture process may not read, over
\* an existing regular file; the parent directory's mtime changes
ReplaceFile(p) ==
  /\ p \in fs.present
  /\ \E t \in {clock, clock + 1} :
       WriterStep(t, [fs EXCEPT !.data[p] = writes + 2,
                                !.mtime[p] = t,
                                !.readable[p] = FALSE,
                                !.mtime[Parent(p)] = t])

\* a writer creates the sub-directory
CreateDir ==
  /\ "d" \notin fs.present
  /\ "r" \in fs.present
  /\ \E t \in {clock, clock + 1} :
       WriterStep(t, [fs EXCEPT !.present = @ \cup {"d"},
                                !.mtime["d"] = t,
                                !.mtime["r"] = t])

\* a writer removes the empty sub-directory
DeleteDir ==
  /\ "d" \in fs.present
  /\ Children(fs, "d") = {}
  /\ \E t \in {clock, clock + 1} :
       WriterStep(t, [fs EXCEPT !.present = @ \ {"d"},
                                !.mtime["d"] = 0,
                                !.mtime["r"] = t])

\* a writer removes the empty capture root
DeleteRoot ==
  /\ "r" \in fs.present
  /\ Children(fs, "r") = {}
  /\ \E t \in {clock, clock + 1} :
       WriterStep(t, [fs EXCEPT !.present = @ \ {"r"}, !.mtime["r"] = 0])

\* ---- the capture process (src/src/processor.rs) ----
Top == stack[Len(stack)]
Pop(st) == SubSeq(st, 1, Len(st) - 1)
NoTodo == [p \in Dirs |-> {}]

EnvSame == UNCHANGED <<fs, ltarget, clock, writes, max_iterations, archVars>>

\* `if modified > visit_revision`: written to after the fence
PastFenceInclusive(modified, revision) == modified >= revision

PastFence(modified, revision) == modified > revision

\* the comparison of the memoization reversed
CacheHitReversed(modified, visit_revision) == modified > visit_revision

\* `if modified < self.visit_revision`: unchanged since the last capture
CacheHitInclusive(modified, visit_revision) == modified <= visit_revision

CacheHit(modified, visit_revision) == modified < visit_revision

\* the bound check off by one
BoundReachedLate(n, max) == n > max

\* `if iterations >= max_iterations`
BoundReached(n, max) == n >= max

\* `std::fs::read(&self.path).map_err(|_| false)`
ReadErr(f, p) == FALSE

FailContinue(b) ==
  /\ pc' = "dnext"
  /\ signal' = b
  /\ cur' = "none"
  /\ pend' = NoEntry
  /\ UNCHANGED <<stack, todo>>

\* `?` on an Err(b): every enclosing visit/fvisit returns Err(b) at once
Fail(b) ==
  /\ pc' = "loop_err"
  /\ signal' = b
  /\ stack' = <<>>
  /\ todo' = NoTodo
  /\ cur' = "none"
  /\ pend' = NoEntry

\* process_directory up to the first SystemTime::now()
Begin ==
  /\ pc = "init"
  /\ IF ~IsDir(fs, "r")
     THEN /\ result' = "PathNotDir"
          /\ pc' = "done"
          /\ UNCHANGED <<iterations, last_time, fsAtR>>
     ELSE /\ iterations' = 0
          /\ last_time' = clock
          /\ fsAtR' = {fs}
          /\ pc' = "create"
          /\ UNCHANGED result
  /\ UNCHANGED <<signal, compiled, vis, ent, lnk, stack, todo, cur, pend,
                 passes, failOp, failPath, failGone, lastVisit>>
  /\ UNCHANGED <<listed, listing>>
  /\ EnvSame

\* Visitor::create on the capture root; its Err(bool) is mapped to
\* MetadataFetchFailed whatever the bool is
CreateRoot ==
  /\ pc = "create"
  /\ IF ~MetadataOk(fs, "r")
     THEN /\ result' = "MetadataFetchFailed"
          /\ signal' = ~Exists(fs, "r")
          /\ failOp' = "metadata"
          /\ failGone' = TRUE
          /\ pc' = "done"
          /\ UNCHANGED <<vis, stack, passes>>
     ELSE IF PastFence(Modified(fs, "r"), last_time)
     THEN /\ result' = "MetadataFetchFailed"
          /\ signal' = TRUE
          /\ failOp' = "fence"
          /\ failGone' = FALSE
          /\ pc' = "done"
          /\ UNCHANGED <<vis, stack, passes>>
     ELSE /\ vis' = [vis EXCEPT !["r"] = [cached |-> TRUE,
                                          metadata |-> Modified(fs, "r"),
                                          revision |-> last_time]]
          /\ stack' = <<"r">>
          /\ passes' = 1
          /\ pc' = "dmeta"
          /\ UNCHANGED <<result, signal, failOp, failGone>>
  /\ failPath' = IF pc' = "done" THEN "r" ELSE failPath
  /\ listed' = IF pc' = "done" THEN listed ELSE {"r"}
  /\ UNCHANGED listing
  /\ UNCHANGED <<iterations, last_time, fsAtR, compiled, ent, lnk, todo, cur,
                 pend, lastVisit>>
  /\ EnvSame

\* Visitor::visit up to the call of fvisit
VisitDir ==
  /\ pc = "dmeta"
  /\ IF ~MetadataOk(fs, Top)
     THEN /\ pc' = "exists"
          /\ cur' = Top
          /\ failOp' = "metadata"
          /\ failPath' = Top
          /\ failGone' = TRUE
          /\ UNCHANGED <<signal, stack, todo, pend, vis>>
     ELSE IF PastFence(Modified(fs, Top), last_time)
     THEN /\ Fail(TRUE)
          /\ failOp' = "fence"
          /\ failPath' = Top
          /\ failGone' = FALSE
          /\ UNCHANGED vis
     ELSE /\ vis' = [vis EXCEPT ![Top].metadata = Modified(fs, Top)]
          /\ pc' = "dlist"
          /\ UNCHANGED <<signal, stack, todo, cur, pend, failOp, failPath,
                         failGone>>
  /\ UNCHANGED <<iterations, last_time, fsAtR, result, compiled, ent, lnk,
                 passes, lastVisit>>
  /\ UNCHANGED <<listed, listing>>
  /\ EnvSame

\* the exists() inside `Err(!path.exists())`, evaluated after the call
\* that failed
ExistsCheck ==
  /\ pc = "exists"
  /\ Fail(~Exists(fs, cur))
  /\ failGone' = ~Exists(fs, cur)
  /\ UNCHANGED <<iterations, last_time, fsAtR, result, compiled, vis, ent,
                 lnk, passes, failOp, failPath, lastVisit>>
  /\ UNCHANGED <<listed, listing>>
  /\ EnvSame

\* Visitor::fvisit: read_dir
ReadDir ==
  /\ pc = "dlist"
  /\ IF ~IsDir(fs, Top)
     THEN /\ pc' = "exists"
          /\ cur' = Top
          /\ failOp' = "read_dir"
          /\ failPath' = Top
          /\ failGone' = TRUE
          /\ UNCHANGED <<todo, listing>>
     ELSE /\ todo' = [todo EXCEPT ![Top] = Children(fs, Top)]
          /\ listing' = listing \cup Children(fs, Top)
          /\ pc' = "dnext"
          /\ UNCHANGED <<cur, failOp, failPath, failGone>>
  /\ UNCHANGED <<iterations, last_time, fsAtR, signal, result, compiled, vis,
                 ent, lnk, stack, pend, passes, lastVisit>>
  /\ UNCHANGED listed
  /\ EnvSame

\* Visitor::fvisit: the next listed entry is classified by is_dir, is_file
\* and is_symlink and looked up in the caches
Dispatch ==
  /\ pc = "dnext"
  /\ \E e \in todo[Top] :
       /\ todo' = [todo EXCEPT ![Top] = @ \ {e}]
       /\ listed' = IF IsDir(fs, e) \/ IsFile(fs, e) \/ IsSymlink(fs, e)
                    THEN listed \cup {e} ELSE listed
       /\ IF IsDir(fs, e)
          THEN IF vis[e].cached
               THEN /\ stack' = Append(stack, e)
                    /\ pc' = "dmeta"
                    /\ UNCHANGED cur
               ELSE /\ cur' = e
                    /\ pc' = "dcreate"
                    /\ UNCHANGED stack
          ELSE IF IsFile(fs, e)
          THEN /\ cur' = e
               /\ pc' = IF ent[e].cached THEN "fvisit" ELSE "fnew"
               /\ UNCHANGED stack
          ELSE IF IsSymlink(fs, e)
          THEN /\ cur' = e
               /\ pc' = "lmeta"
               /\ UNCHANGED stack
          ELSE /\ pc' = "dnext"
               /\ UNCHANGED <<cur, stack>>
  /\ UNCHANGED <<iterations, last_time, fsAtR, signal, result, compiled, vis,
                 ent, lnk, pend, passes, failOp, failPath, failGone,
                 lastVisit, listing>>
  /\ EnvSame

\* Visitor::fvisit: the listing is exhausted, Ok(()) goes to the caller
Return ==
  /\ pc = "dnext"
  /\ todo[Top] = {}
  /\ stack' = Pop(stack)
  /\ pc' = IF Len(stack) = 1 THEN "loop_ok" ELSE "dnext"
  /\ UNCHANGED <<iterations, last_time, fsAtR, signal, result, compiled, vis,
                 ent, lnk, todo, cur, pend, passes, failOp, failPath,
                 failGone, lastVisit>>
  /\ UNCHANGED <<listed, listing>>
  /\ EnvSame

\* Visitor::fvisit: Visitor::create for a directory met for the first time;
\* the node is inserted before its own fvisit runs
CreateSub ==
  /\ pc = "dcreate"
  /\ IF ~MetadataOk(fs, cur)
     THEN /\ pc' = "exists"
          /\ failOp' = "metadata"
          /\ failPath' = cur
          /\ failGone' = TRUE
          /\ UNCHANGED <<signal, stack, todo, cur, pend, vis>>
     ELSE IF PastFence(Modified(fs, cur), last_time)
     THEN /\ Fail(TRUE)
          /\ failOp' = "fence"
          /\ failPath' = cur
          /\ failGone' = FALSE
          /\ UNCHANGED vis
     ELSE /\ vis' = [vis EXCEPT ![cur] = [cached |-> TRUE,
                                          metadata |-> Modified(fs, cur),
                                          revision |-> last_time]]
          /\ stack' = Append(stack, cur)
          /\ cur' = "none"
          /\ pc' = "dlist"
          /\ UNCHANGED <<signal, todo, pend, failOp, failPath, failGone>>
  /\ UNCHANGED <<iterations, last_time, fsAtR, result, compiled, ent, lnk,
                 passes, lastVisit>>
  /\ UNCHANGED <<listed, listing>>
  /\ EnvSame

\* WeakEntry::new up to the read of the content: metadata, fence check,
\* the record under construction with its empty temp file
EntryNew ==
  /\ pc = "fnew"
  /\ IF ~MetadataOk(fs, cur)
     THEN /\ pc' = "exists"
          /\ failOp' = "metadata"
          /\ failPath' = cur
          /\ failGone' = TRUE
          /\ UNCHANGED <<signal, stack, todo, cur, pend>>
     ELSE IF PastFence(Modified(fs, cur), last_time)
     THEN /\ Fail(TRUE)
          /\ failOp' = "fence"
          /\ failPath' = cur
          /\ failGone' = FALSE
     ELSE /\ pend' = [cached |-> TRUE,
                      metadata |-> Modified(fs, cur),
                      visit_revision |-> last_time,
                      encoded_data |-> TempFile]
          /\ pc' = "fread"
          /\ UNCHANGED <<signal, stack, todo, cur, failOp, failPath,
                         failGone>>
  /\ UNCHANGED <<iterations, last_time, fsAtR, result, compiled, vis, ent,
                 lnk, passes, lastVisit>>
  /\ UNCHANGED <<listed, listing>>
  /\ EnvSame

\* WeakEntry::visit up to the read of the content: metadata, fence check,
\* cache hit, else the new metadata is stored and fvisit replaces
\* encoded_data by an empty temp file
EntryVisit ==
  /\ pc = "fvisit"
  /\ IF ~MetadataOk(fs, cur)
     THEN /\ pc' = "exists"
          /\ failOp' = "metadata"
          /\ failPath' = cur
          /\ failGone' = TRUE
          /\ lastVisit' = [path |-> cur, before |-> ent[cur],
                           after |-> ent[cur], target |-> last_time,
                           modified |-> 0, data |-> 0,
                           outcome |-> "nometa"]
          /\ UNCHANGED <<signal, stack, todo, cur, pend, ent>>
     ELSE IF PastFence(Modified(fs, cur), last_time)
     THEN /\ Fail(TRUE)
          /\ failOp' = "fence"
          /\ failPath' = cur
          /\ failGone' = FALSE
          /\ lastVisit' = [path |-> cur, before |-> ent[cur],
                           after |-> ent[cur], target |-> last_time,
                           modified |-> Modified(fs, cur),
                           data |-> FileData(fs, cur),
                           outcome |-> "fence"]
          /\ UNCHANGED ent
     ELSE IF CacheHit(Modified(fs, cur), ent[cur].visit_revision)
     THEN /\ ent' = [ent EXCEPT ![cur].visit_revision = last_time]
          /\ pc' = "dnext"
          /\ cur' = "none"
          /\ lastVisit' = [path |-> cur, before |-> ent[cur],
                           after |-> ent'[cur], target |-> last_time,
                           modified |-> Modified(fs, cur),
                           data |-> FileData(fs, cur),
                           outcome |-> "ok"]
          /\ UNCHANGED <<signal, stack, todo, pend, failOp, failPath,
                         failGone>>
     ELSE /\ ent' = [ent EXCEPT ![cur].metadata = Modified(fs, cur),
                                ![cur].encoded_data = TempFile]
          /\ pc' = "fread"
          /\ lastVisit' = [path |-> cur, before |-> ent[cur],
                           after |-> ent'[cur], target |-> last_time,
                           modified |-> Modified(fs, cur),
                           data |-> FileData(fs, cur),
                           outcome |-> "reread"]
          /\ UNCHANGED <<signal, stack, todo, cur, pend, failOp, failPath,
                         failGone>>
  /\ UNCHANGED <<iterations, last_time, fsAtR, result, compiled, vis, lnk,
                 passes>>
  /\ UNCHANGED <<listed, listing>>
  /\ EnvSame

\* WeakEntry::fvisit from std::fs::read on, then the tail of its caller:
\* visit stamps the revision, new's record is inserted into entries
EntryRead ==
  /\ pc = "fread"
  /\ IF ~ReadOk(fs, cur)
     THEN /\ Fail(FALSE)
          /\ failOp' = "read"
          /\ failPath' = cur
          /\ failGone' = ~Exists(fs, cur)
          /\ UNCHANGED ent
     ELSE /\ ent' = [ent EXCEPT ![cur] =
                IF ent[cur].cached
                THEN [@ EXCEPT !.encoded_data = Compress(FileData(fs, cur)),
                               !.visit_revision = last_time]
                ELSE [pend EXCEPT
                               !.encoded_data = Compress(FileData(fs, cur))]]
          /\ pc' = "dnext"
          /\ cur' = "none"
          /\ pend' = NoEntry
          /\ UNCHANGED <<signal, stack, todo, failOp, failPath, failGone>>
  /\ UNCHANGED <<iterations, last_time, fsAtR, result, compiled, vis, lnk,
                 passes, lastVisit>>
  /\ UNCHANGED <<listed, listing>>
  /\ EnvSame

\* SymlinkEntry::new and SymlinkEntry::visit: metadata (which follows the
\* link) and the stamp
LinkVisit ==
  /\ pc = "lmeta"
  /\ IF ~MetadataOk(fs, cur)
     THEN /\ pc' = "exists"
          /\ failOp' = "metadata"
          /\ failPath' = cur
          /\ failGone' = TRUE
          /\ UNCHANGED <<cur, lnk>>
     ELSE /\ lnk' = [cached |-> TRUE, metadata |-> Modified(fs, cur),
                     visit_revision |-> last_time]
          /\ pc' = "dnext"
          /\ cur' = "none"
          /\ UNCHANGED <<failOp, failPath, failGone>>
  /\ UNCHANGED <<iterations, last_time, fsAtR, signal, result, compiled, vis,
                 ent, stack, todo, pend, passes, lastVisit>>
  /\ UNCHANGED <<listed, listing>>
  /\ EnvSame

\* process_directory: the Err arm of the loop and, on a retry, the loop body
LoopErr ==
  /\ pc = "loop_err"
  /\ IF BoundReached(iterations, max_iterations)
     THEN /\ result' = "IterationBoundExceeded"
          /\ pc' = "done"
          /\ UNCHANGED <<iterations, last_time, fsAtR, clock, stack, passes,
                         listed, listing>>
     ELSE IF signal
     THEN /\ clock < MaxTime
          /\ clock' = clock + 1
          /\ iterations' = iterations + 1
          /\ last_time' = clock'
          /\ fsAtR' = {fs}
          /\ stack' = <<"r">>
          /\ passes' = passes + 1
          /\ listed' = {"r"}
          /\ listing' = {}
          /\ pc' = "dmeta"
          /\ UNCHANGED result
     ELSE /\ result' = "UnrecoverableUnknown"
          /\ pc' = "done"
          /\ UNCHANGED <<iterations, last_time, fsAtR, clock, stack, passes,
                         listed, listing>>
  /\ UNCHANGED <<signal, compiled, vis, ent, lnk, todo, cur, pend, failOp,
                 failPath, failGone, lastVisit>>
  /\ UNCHANGED <<fs, ltarget, writes, max_iterations, archVars>>

\* process_directory: the Ok arm of the loop, then compile
LoopOk ==
  /\ pc = "loop_ok"
  /\ compiled' = CompileNode("r", last_time)
  /\ result' = "Ok"
  /\ pc' = "done"
  /\ UNCHANGED <<iterations, last_time, fsAtR, signal, vis, ent, lnk, stack,
                 todo, cur, pend, passes, failOp, failPath, failGone,
                 lastVisit>>
  /\ UNCHANGED <<listed, listing>>
  /\ EnvSame

Writer ==
  \/ \E p \in Files : ModifyFile(p)
  \/ \E p \in Files : CreateFile(p)
  \/ \E p \in Files : DeleteFile(p)
  \/ \E p \in Files : Chmod(p)
  \/ \E p \in Files : ReplaceFile(p)
  \/ CreateDir
  \/ DeleteDir
  \/ DeleteRoot

Next ==
  \/ Begin
  \/ CreateRoot
  \/ VisitDir
  \/ ExistsCheck
  \/ ReadDir
  \/ Dispatch
  \/ Return
  \/ CreateSub
  \/ EntryNew
  \/ EntryVisit
  \/ EntryRead
  \/ LinkVisit
  \/ LoopErr
  \/ LoopOk
  \/ Writer

Spec == Init /\ [][Next]_vars

\* ---- the archive writer (src/src/archiver.rs) ----
\* Paths are sequences of components; an absolute path starts with "/".
Origin == <<"/", "r">>

FullPath(p) ==
  IF p = "r" THEN Origin
  ELSE IF p = "b" THEN Origin \o <<"d", "b">>
  ELSE Origin \o <<p>>

\* Path::starts_with: a prefix of whole components
StartsWith(path, base) ==
  /\ Len(base) <= Len(path)
  /\ SubSeq(path, 1, Len(base)) = base

\* Path::strip_prefix, for a path that starts with base
StripPrefix(path, base) == SubSeq(path, Len(base) + 1, Len(path))

IsAbsolute(path) == Len(path) > 0 /\ path[1] = "/"

\* Path::join: an absolute argument replaces the base
Join(base, path) == IF IsAbsolute(path) THEN path ELSE base \o path

\* find_relative_path panics unless the path starts with the origin
Panics(origin, relative) == ~StartsWith(relative, origin)

\* find_relative_path, where it does not panic
FindRelativePath(origin, relative) ==
  Join(origin, StripPrefix(relative, origin))

\* the check create_tarball makes on a symlink's target
TargetAccepted(link, origin) == StartsWith(link, origin)

ArchEntry(p, ty) ==
  [path |-> FullPath(p), entry_type |-> ty,
   data |-> IF ty = "File" THEN Compress(1) ELSE TempFile]

EntryChoices ==
  {ArchEntry("a", "File"), ArchEntry("b", "File"), ArchEntry("l", "File"),
   ArchEntry("d", "Directory"), ArchEntry("l", "Symlink")}

\* the entry lists compile can hand over: nothing, or the root's directory
\* entry followed by entries of distinct paths
EntryLists ==
  {<<>>} \cup
  {<<ArchEntry("r", "Directory")>> \o s :
     s \in {t \in UNION {[1..n -> EntryChoices] : n \in 0..(MaxEntries - 1)} :
              \A i, j \in DOMAIN t : i # j => t[i].path # t[j].path}}

\* what read_link can yield for r/l: an error, or the link's target as it
\* is stored -- absolute or relative, inside or outside the root
LinkTargets ==
  {Origin \o <<"a">>, Origin \o <<"..", "x">>, <<"/", "x">>, <<"a">>,
   <<"..", "x">>}

InitArch ==
  /\ fs = [present |-> {}, mtime |-> [p \in Paths |-> 0],
           data |-> [p \in Files |-> 0], readable |-> [p \in Files |-> TRUE]]
  /\ ltarget = "missing"
  /\ max_iterations = 0
  /\ InitEngine
  /\ entries \in EntryLists
  /\ readLink \in {[ok |-> FALSE, link |-> <<>>]}
                   \cup {[ok |-> TRUE, link |-> t] : t \in LinkTargets}
  /\ nextEntry = 1
  /\ tar = <<>>
  /\ archResult = "none"

ArchSame ==
  UNCHANGED <<fs, ltarget, clock, writes, max_iterations, fsAtR, engineVars,
              entries, readLink>>

\* create_tarball: one turn of the loop over entries; the builder's appends
\* are recorded with the arguments they are given (`of` is history: the
\* entry the record was written for)
AppendEntry ==
  /\ archResult = "none"
  /\ nextEntry <= Len(entries)
  /\ LET e == entries[nextEntry]
         relative_path == FindRelativePath(Origin, e.path)
     IN IF Panics(Origin, e.path)
        THEN /\ archResult' = "panic"
             /\ UNCHANGED <<tar, nextEntry>>
        ELSE /\ nextEntry' = nextEntry + 1
             /\ UNCHANGED archResult
             /\ IF e.entry_type = "File"
                THEN tar' = Append(tar, [kind |-> "file",
                                         path |-> relative_path,
                                         link |-> <<>>,
                                         size |-> Len(e.data),
                                         of |-> e.path])
                ELSE IF e.entry_type = "Directory"
                THEN tar' = Append(tar, [kind |-> "dir",
                                         path |-> relative_path,
                                         link |-> <<>>,
                                         size |-> 0,
                                         of |-> e.path])
                ELSE IF readLink.ok /\ TargetAccepted(readLink.link, Origin)
                THEN tar' = Append(tar, [kind |-> "symlink",
                                         path |-> relative_path,
                                         link |-> FindRelativePath(
                                                    Origin, readLink.link),
                                         size |-> 0,
                                         of |-> e.path])
                ELSE UNCHANGED tar
  /\ ArchSame

\* create_tarball: builder.into_inner()?.flush()
FinishArchive ==
  /\ archResult = "none"
  /\ nextEntry > Len(entries)
  /\ archResult' = "Ok"
  /\ UNCHANGED <<tar, nextEntry>>
  /\ ArchSame

NextArch ==
  \/ AppendEntry
  \/ FinishArchive

SpecArch == InitArch /\ [][NextArch]_vars

\* ---- properties of the capture engine ----
Failed == result \in {"IterationBoundExceeded", "UnrecoverableUnknown"}

EntryOf(p) == {e \in compiled : e.path = p}

\* the directories and regular files of a tree, each with its entry type
TreeEntries(f) ==
  {<<p, "Directory">> : p \in f.present \cap Dirs}
    \cup {<<p, "File">> : p \in f.present \cap Files}

\* the symbolic links of a tree whose target is an object inside the tree
InternalLinks(f) ==
  IF "l" \in f.present /\ ltarget = "in" /\ "a" \in f.present
  THEN {<<"l", "Symlink">>} ELSE {}

CompiledShape == {<<e.path, e.entry_type>> : e \in compiled}

\* the compiled result is a snapshot of the tree state f: every file entry
\* holds the content of its file in f, and the directories and regular
\* files that have an entry are exactly those of f
SnapshotOf(f) ==
  /\ \A e \in compiled :
       (e.entry_type = "File" /\ e.path \in Files) =>
         /\ e.path \in f.present
         /\ e.data = Compress(f.data[e.path])
  /\ {s \in CompiledShape : s[1] \in Dirs \cup Files} = TreeEntries(f)

\* C1: whenever process_directory returns Ok with final revision R, the
\* result is a snapshot of one state the tree had as of R (no torn mix of
\* before and after) -- whatever the writers did between the capture steps.
C1_SnapshotConsistent ==
  result = "Ok" => \E f \in fsAtR : SnapshotOf(f)

\* C2: process_directory runs at most max_iterations + 1 passes, and when
\* the last pass failed recoverable and no retry is left it returns
\* IterationBoundExceeded after exactly max_iterations retries.
C2_RetryTermination ==
  /\ passes <= max_iterations + 1
  /\ iterations <= max_iterations
  /\ (Failed /\ signal) =>
       /\ result = "IterationBoundExceeded"
       /\ iterations = max_iterations
       /\ passes = max_iterations + 1

C2_Witness ==
  /\ result = "IterationBoundExceeded"
  /\ signal
  /\ max_iterations >= 1
  /\ iterations = max_iterations
  /\ passes = max_iterations + 1

\* C3: a pass that fails non-recoverable makes process_directory return
\* UnrecoverableUnknown, and IterationBoundExceeded is returned only when the
\* failing pass was recoverable.
C3_NonRecoverableDistinct ==
  /\ (Failed /\ ~signal) => result = "UnrecoverableUnknown"
  /\ result = "IterationBoundExceeded" => signal

\* C4: process_directory returns an error other than IterationBoundExceeded
\* only when the root is not a directory or a step failed non-recoverable; a
\* recoverable condition (post-fence modification, concurrent deletion),
\* also one met while the root node is constructed, leads to a retry.
C4_RecoverableRetries ==
  result \in {"MetadataFetchFailed", "UnrecoverableUnknown"} => ~signal

\* C5: for a tree that no writer touches during the capture, the first pass
\* succeeds with zero retries and the compiled entries are exactly one per
\* directory, per regular file and per internal symlink of the tree.
C5_QuietTreeConverges ==
  (pc = "done" /\ writes = 0 /\ result # "PathNotDir") =>
    /\ result = "Ok"
    /\ iterations = 0
    /\ CompiledShape = TreeEntries(fs) \cup InternalLinks(fs)

\* C6: whenever the root's visit succeeds, after any number of retries, the
\* compiled result has an entry for the root and for every directory, file
\* and symlink that the converged pass listed.
C6_CompileDropsNothing ==
  result = "Ok" => \A p \in listed : EntryOf(p) # {}

\* C7: a pass that fails on a regular file that a writer has deleted (at the
\* metadata call or at the later content read) fails recoverable.
C7_DeletionRecoverable ==
  (/\ pc # "exists"
   /\ failOp \in {"metadata", "read"}
   /\ failPath \in Files
   /\ failGone) => signal

\* C8: when the metadata call or the content read of a regular file fails,
\* the record reports recoverable if and only if the path no longer exists.
C8_FailureClassification ==
  (/\ pc # "exists"
   /\ failOp \in {"metadata", "read"}
   /\ failPath \in Files) => (signal <=> failGone)

\* C9: a cached record confirmed at R1, revisited with a later target R2
\* while the file's modification time is strictly before R1: the visit
\* succeeds and changes nothing of the record but its stamped revision,
\* which becomes R2.
C9_CacheHitIdempotent ==
  (/\ lastVisit.outcome \in {"ok", "fence", "reread"}
   /\ lastVisit.before.cached
   /\ lastVisit.modified < lastVisit.before.visit_revision
   /\ lastVisit.target > lastVisit.before.visit_revision) =>
    /\ lastVisit.outcome = "ok"
    /\ lastVisit.after =
         [lastVisit.before EXCEPT !.visit_revision = lastVisit.target]

C9_Witness ==
  /\ lastVisit.outcome = "ok"
  /\ lastVisit.modified < lastVisit.before.visit_revision
  /\ lastVisit.target > lastVisit.before.visit_revision
  /\ lastVisit.before.encoded_data # TempFile
  /\ ent[lastVisit.path] = lastVisit.after
  /\ pc = "dnext"

\* ---- properties of the archive writer ----

\* the path a link target names: relative targets start at the link's
\* directory, and each ".." leaves the directory reached so far
RECURSIVE Normalize(_, _)
Normalize(done, rest) ==
  IF rest = <<>> THEN done
  ELSE IF rest[1] = ".."
       THEN Normalize(IF Len(done) > 1 THEN SubSeq(done, 1, Len(done) - 1)
                      ELSE done, Tail(rest))
       ELSE Normalize(Append(done, rest[1]), Tail(rest))

LinkResolved(linkPath, target) ==
  IF IsAbsolute(target) THEN Normalize(<<"/">>, Tail(target))
  ELSE Normalize(SubSeq(linkPath, 1, Len(linkPath) - 1), target)

\* the symlink r/l points outside the capture root
Escaping ==
  /\ readLink.ok
  /\ ~StartsWith(LinkResolved(FullPath("l"), readLink.link), Origin)

\* C10: a symlink whose target resolves outside the capture root (also one
\* that has the root as a lexical prefix and leaves it through "..") is
\* never emitted, and it does not abort the write: the write returns Ok with
\* a record for every other entry.
C10_EscapingSymlinkExcluded ==
  Escaping =>
    /\ \A i \in DOMAIN tar : tar[i].kind # "symlink"
    /\ archResult \in {"none", "Ok"}
    /\ archResult = "Ok" =>
         \A i \in DOMAIN entries :
           entries[i].entry_type # "Symlink" =>
             \E j \in DOMAIN tar : tar[j].of = entries[i].path

\* the symlink r/l has a target inside the capture root
InternalTarget ==
  /\ readLink.ok
  /\ StartsWith(LinkResolved(FullPath("l"), readLink.link), Origin)

\* the tar records written for the entry at path
RecordsOf(path) == {j \in DOMAIN tar : tar[j].of = path}

\* C11: a symlink whose target lies within the tree is kept as a symlink
\* record by the engine (never captured as a regular file), and the finished
\* archive holds exactly one record for it: a symlink record without payload
\* whose target is the resolved target relative to the capture root, for a
\* relative target as for an absolute one.
C11_SymlinkRecords ==
  /\ ltarget = "in" => ~ent["l"].cached
  /\ (InternalTarget /\ archResult = "Ok") =>
       \A i \in DOMAIN entries :
         entries[i].entry_type = "Symlink" =>
           /\ Cardinality(RecordsOf(entries[i].path)) = 1
           /\ \A j \in RecordsOf(entries[i].path) :
                /\ tar[j].kind = "symlink"
                /\ tar[j].size = 0
                /\ tar[j].link =
                     StripPrefix(LinkResolved(entries[i].path, readLink.link),
                                 Origin)

\* C12: every record of the archive is written under the entry's path with
\* the capture root stripped; the archive path does not contain the
\* components of the capture root.
C12_ArchivePathsRelative ==
  \A j \in DOMAIN tar :
    /\ tar[j].path = StripPrefix(tar[j].of, Origin)
    /\ ~StartsWith(tar[j].path, Origin)

\* the record or node of path p carries revision R
ConfirmedAt(p, R) ==
  IF p \in Dirs THEN vis[p].cached /\ vis[p].revision = R
  ELSE \/ ent[p].cached /\ ent[p].visit_revision = R
       \/ p = "l" /\ lnk.cached /\ lnk.visit_revision = R

\* C13: when the visit of the root node returns Ok for the target revision,
\* the node, whether created in this pass or cached from an earlier one,
\* and every file, symlink and sub-directory the pass listed carry that
\* revision.
C13_VisitPostcondition ==
  pc = "loop_ok" => \A p \in listed : ConfirmedAt(p, last_time)

\* C14: between passes, also after a pass that failed, a directory node
\* carries the revision of the last pass only if every entry that pass
\* listed in the directory was confirmed at that revision; a node created
\* in a pass whose child then fails does not carry the revision of the pass.
C14_NodeInvariant ==
  pc = "loop_err" =>
    \A p \in listed \ {"r"} :
      (vis[Parent(p)].cached /\ vis[Parent(p)].revision = last_time)
        => ConfirmedAt(p, last_time)

\* C15: the modification time of a file is the time of its last write (all
\* writer steps keep it so).  Whenever a visit takes the cache-hit path, the
\* compressed content the record keeps is the compression of the content the
\* file has at that moment; a file whose modification time equals the
\* revision the record was confirmed at is not a hit, it is read again.
C15_MemoizationSound ==
  /\ lastVisit.outcome = "ok" =>
       lastVisit.after.encoded_data = Compress(lastVisit.data)
  /\ (lastVisit.outcome \in {"ok", "reread"}
        /\ lastVisit.modified = lastVisit.before.visit_revision)
       => lastVisit.outcome = "reread"

\* a cache hit in a pass that a writer made necessary: the record keeps the
\* compression of the content the file has
C15_Witness ==
  /\ lastVisit.outcome = "ok"
  /\ writes > 0
  /\ lastVisit.data > 0
  /\ lastVisit.after.encoded_data = Compress(lastVisit.data)

\* the file or directory whose metadata the next engine step fetches
FenceSubject ==
  IF pc = "create" THEN "r" ELSE IF pc = "dmeta" THEN Top ELSE cur

\* C16: a visit or a first capture of a regular file or a directory whose
\* modification time is strictly after the target revision fails with the
\* recoverable signal in the very step that fetched the metadata: no content
\* and no listing is read, and no record or node changes (the stamped
\* revisions stay).  A modification time equal to the target revision is
\* accepted: the operation goes on.
C16_FenceCheck ==
  [][(/\ pc \in {"create", "dmeta", "dcreate", "fnew", "fvisit"}
      /\ pc' # pc
      /\ MetadataOk(fs, FenceSubject)) =>
       /\ Modified(fs, FenceSubject) > last_time =>
            /\ signal'
            /\ pc' = IF pc = "create" THEN "done" ELSE "loop_err"
            /\ UNCHANGED <<ent, lnk, vis, listing>>
       /\ Modified(fs, FenceSubject) = last_time =>
            pc' \in {"dlist", "dmeta", "fread", "dnext"}]_vars

\* a cached file record met after a later write: the pass has failed
\* recoverable on the fence check and the record kept its older revision
C16_Witness ==
  /\ pc = "loop_err"
  /\ failOp = "fence"
  /\ signal
  /\ failPath \in RecPaths
  /\ ent[failPath].cached
  /\ ent[failPath].visit_revision < last_time
  /\ fs.mtime[failPath] > last_time

\* the next engine step is the failure of a child visit
ChildFails ==
  \/ pc = "exists"
  \/ pc = "fread" /\ ~ReadOk(fs, cur)
  \/ /\ pc \in {"dmeta", "dcreate", "fnew", "fvisit"}
     /\ MetadataOk(fs, FenceSubject)
     /\ Modified(fs, FenceSubject) > last_time

\* the Err value of that failure
ChildSignal ==
  IF pc = "exists" THEN ~Exists(fs, cur)
  ELSE IF pc = "fread" THEN FALSE
  ELSE TRUE

\* C17: when the visit of a child fails, recoverable or not, the step that
\* fails hands this very signal to the retry loop: every enclosing pass has
\* returned, no entry left in a listing is visited or created, and no
\* record or node changes in that step or before the next pass starts, so
\* the records of the entries not visited keep their revision and content.
C17_FailFast ==
  [][/\ (ChildFails /\ pc' # pc) =>
          /\ pc' = "loop_err"
          /\ signal' = ChildSignal
          /\ stack' = <<>>
          /\ \A d \in Dirs : todo'[d] = {}
          /\ UNCHANGED <<ent, lnk, vis>>
     /\ pc = "loop_err" => UNCHANGED <<ent, lnk, vis, signal>>]_vars

\* a pass has failed on one entry while another entry of the listing, with
\* a record cached by an earlier pass, was not visited
C17_Witness ==
  /\ pc = "loop_err"
  /\ failPath \in RecPaths
  /\ \E p \in (listing \ listed) \cap RecPaths :
       /\ p # failPath
       /\ ent[p].cached
       /\ ent[p].visit_revision < last_time

\* the stamped revision of the node or record an entry was built from
StampOf(e) ==
  IF e.entry_type = "Directory" THEN vis[e.path].revision
  ELSE IF e.entry_type = "File" THEN ent[e.path].visit_revision
  ELSE lnk.visit_revision

\* the directory nodes above path p
Ancestors(p) ==
  {n \in Dirs : \/ n = Parent(p)
                \/ Parent(p) \in Dirs /\ n = Parent(Parent(p))}

\* C18: in every state of the caches and for every target revision T, each
\* entry compile(T) emits is built from a node or record stamped T and lies
\* below nodes stamped T only; a directory node stamped otherwise
\* contributes nothing, neither its marker nor anything of its subtree.  The
\* entries process_directory returns are those of compile for the revision
\* of the converged pass.
C18_CompileFilter ==
  /\ \A T \in 0..MaxTime :
       /\ \A e \in CompileNode("r", T) :
            /\ StampOf(e) = T
            /\ \A n \in Ancestors(e.path) : vis[n].revision = T
       /\ \A n \in Dirs : vis[n].revision # T => CompileNode(n, T) = {}
  /\ result = "Ok" => compiled = CompileNode("r", last_time)

\* the converged pass has stamped a file record with its revision, the root
\* node carries another revision, and compile has returned nothing
C18_Witness ==
  /\ result = "Ok"
  /\ vis["r"].revision # last_time
  /\ \E p \in RecPaths : ent[p].cached /\ ent[p].visit_revision = last_time
  /\ compiled = {}

\* a node or record is cached under path p
Cached(p) ==
  IF p \in Dirs THEN vis[p].cached
  ELSE ent[p].cached \/ (p = "l" /\ lnk.cached)

\* p was cached by an earlier pass and no listing of the current pass
\* returned it
Orphaned(p) == Cached(p) /\ p \notin listing

C20_BrokenLinkConverges ==
  (/\ pc = "done"
   /\ writes = 0
   /\ IsDir(fs, "r")
   /\ "l" \in fs.present
   /\ ltarget = "missing") =>
    /\ result = "Ok"
    /\ lnk.cached
    /\ lnk.visit_revision = last_time

\* the last visit of a cached file record has failed: on its metadata, on
\* the fence check, or on the read that follows a stale record
VisitFailed ==
  /\ pc = "loop_err"
  /\ lastVisit.outcome \in {"nometa", "fence", "reread"}
  /\ lastVisit.path = failPath
  /\ lastVisit.target = last_time

\* C21: when the visit of a cached file record returns a failure,
\* recoverable or not, the record is what it was before the call: compressed
\* content, metadata and stamped revision.
C21_FailedVisitKeepsRecord ==
  VisitFailed => ent[lastVisit.path] = lastVisit.before
====
